---- MODULE Spec2Model ----
(***************************************************************************)
(* pmf2bin: conversion of a Kodak premaster archive (payload .pmf plus     *)
(* track-list descriptor .pmf.ff) into a BIN image and a CUE sheet.        *)
(*                                                                         *)
(* Byte arrays are sequences of numbers in 0..255.  Go's 0-based index i   *)
(* is position i+1 of the sequence: At(s, i) is s[i] and Slice(s, lo, hi)  *)
(* is s[lo:hi].                                                            *)
(*                                                                         *)
(* Two builds of buildBin are in the repository: src/unnamed/part_000      *)
(* computes EDC and ECC for data sectors ("ecc"), src/pmf2bin.go leaves    *)
(* them zero ("stub").  Line numbers in comments are those of part_000.    *)
(* Opening the descriptor and creating the image or the cue sheet may      *)
(* fail; reads of an open file, writes, flush, sync and close are taken to *)
(* succeed.                                                                *)
(***************************************************************************)
EXTENDS Integers, Sequences, FiniteSets, TLC

At(s, i) == s[i + 1]

Slice(s, lo, hi) == SubSeq(s, lo + 1, hi)

Zeros(n) == [i \in 1..n |-> 0]

(***************************************************************************)
(* for i := lo; i < hi; i++ { st = Step(st, i) }                           *)
(* The range is halved and the state reached at the middle is evaluated    *)
(* (Evaluated) before the second half starts, so that the evaluation depth *)
(* is logarithmic in the iteration count; the iterations run in ascending  *)
(* order of i, each on the state the previous one left.                    *)
(***************************************************************************)
Evaluated(v) == v = v

RECURSIVE ForLoop(_, _, _, _)
ForLoop(Step(_, _), lo, hi, st) ==
    IF lo >= hi THEN st
    ELSE IF hi = lo + 1 THEN Step(st, lo)
    ELSE LET mid == (lo + hi) \div 2
             half == ForLoop(Step, lo, mid, st)
         IN  IF Evaluated(half) THEN ForLoop(Step, mid, hi, half) ELSE half

(***************************************************************************)
(* Program constants.                                                      *)
(***************************************************************************)
pmfSector == 2056

binSector == 2352

LeadIn == 150

\* polyEDC = 0xD8018001, held as two 16-bit halves (0xD801, 0x8001)
polyEDCHi == 55297

polyEDCLo == 32769

gfPoly == 285

\* 12-byte sync pattern 00 FF x10 00
SyncPattern == <<0, 255, 255, 255, 255, 255, 255, 255, 255, 255, 255, 0>>

(***************************************************************************)
(* Bitwise exclusive or, as the hardware computes it, on 4, 8, 16 and 32   *)
(* bit operands.                                                           *)
(***************************************************************************)
RECURSIVE XorBits(_, _, _)
XorBits(a, b, n) ==
    IF n = 0 THEN 0
    ELSE (((a % 2) + (b % 2)) % 2) + (2 * XorBits(a \div 2, b \div 2, n - 1))

XorNib == [a \in 0..15 |-> [b \in 0..15 |-> XorBits(a, b, 4)]]

Xor8(a, b) ==
    (16 * XorNib[a \div 16][b \div 16]) + XorNib[a % 16][b % 16]

Xor16(a, b) ==
    (256 * Xor8(a \div 256, b \div 256)) + Xor8(a % 256, b % 256)

\* A uint32 is the record [hi, lo] of its 16-bit halves.
U32(hi, lo) == [hi |-> hi, lo |-> lo]

Xor32(a, b) == U32(Xor16(a.hi, b.hi), Xor16(a.lo, b.lo))

\* r >> n for n in 1..15
Shr32(r, n) ==
    LET m == 2 ^ n
    IN  U32(r.hi \div m, (r.lo \div m) + ((r.hi % m) * (65536 \div m)))

polyEDC == U32(polyEDCHi, polyEDCLo)

(***************************************************************************)
(* init(): the EDC lookup table.                                           *)
(***************************************************************************)
RECURSIVE EdcRounds(_, _)
EdcRounds(r, j) ==
    IF j = 0 THEN r
    ELSE EdcRounds(IF r.lo % 2 # 0 THEN Xor32(Shr32(r, 1), polyEDC)
                                   ELSE Shr32(r, 1),
                   j - 1)

edcLUT == [i \in 0..255 |-> EdcRounds(U32(0, i), 8)]

(***************************************************************************)
(* init(): the GF(2^8) tables.  GfTables runs the first loop (i = 0..254)  *)
(* carrying b and the two tables; gfPow is then extended to 509 entries.   *)
(***************************************************************************)
GfInitStep(st, i) ==
    LET b2 == (2 * st.b) % 65536
    IN  [b   |-> IF (b2 \div 256) % 2 # 0 THEN Xor16(b2, gfPoly) ELSE b2,
         pow |-> [st.pow EXCEPT ![i] = st.b % 256],
         log |-> [st.log EXCEPT ![st.b] = i]]

GfTables ==
    ForLoop(GfInitStep, 0, 255,
            [b |-> 1, pow |-> [i \in 0..508 |-> 0], log |-> [v \in 0..255 |-> 0]])

\* the exponent table as the first loop leaves it
gfPowFirstLoop == GfTables.pow

gfPow == [i \in 0..508 |-> IF i < 255 THEN GfTables.pow[i]
                                      ELSE GfTables.pow[i - 255]]

gfLog == GfTables.log

gfMult(a, b) ==
    IF a = 0 \/ b = 0 THEN 0
    ELSE gfPow[gfLog[a] + gfLog[b]]

(***************************************************************************)
(* computeEDC: the loop over the bytes of data carrying the accumulator.   *)
(***************************************************************************)
\* the accumulator shifted, the data byte left out
EdcShiftOnly(edc, b) == Shr32(edc, 8)

EdcStep(edc, b) ==
    LET index == Xor8(edc.lo % 256, b)
    IN  Xor32(Shr32(edc, 8), edcLUT[index])

computeEDC(data) ==
    LET Body(acc, i) == EdcStep(acc, At(data, i))
        edc == ForLoop(Body, 0, Len(data), U32(0, 0))
    IN  << edc.lo % 256, edc.lo \div 256, edc.hi % 256, edc.hi \div 256 >>

(***************************************************************************)
(* The two-stage LFSR shared by both parity generators: one element        *)
(* (low byte, high byte) enters registers r = [r0Lsb, r0Msb, r1Lsb, r1Msb].*)
(***************************************************************************)
g1 == 3

g0 == 2

\* the step with the taps g1 and g0 exchanged
LfsrStepTapsSwapped(sector, pos, r) ==
    LET dataLsb == IF pos < 4 THEN 0 ELSE At(sector, pos)
        dataMsb == IF pos < 3 THEN 0 ELSE At(sector, pos + 1)
        feedbackLsb == Xor8(dataLsb, r.r1Lsb)
        feedbackMsb == Xor8(dataMsb, r.r1Msb)
    IN  [r1Lsb |-> Xor8(r.r0Lsb, gfMult(feedbackLsb, g0)),
         r1Msb |-> Xor8(r.r0Msb, gfMult(feedbackMsb, g0)),
         r0Lsb |-> gfMult(feedbackLsb, g1),
         r0Msb |-> gfMult(feedbackMsb, g1)]

\* the step with the header bytes taken as they are
LfsrStepHeaderKept(sector, pos, r) ==
    LET dataLsb == At(sector, pos)
        dataMsb == At(sector, pos + 1)
        feedbackLsb == Xor8(dataLsb, r.r1Lsb)
        feedbackMsb == Xor8(dataMsb, r.r1Msb)
    IN  [r1Lsb |-> Xor8(r.r0Lsb, gfMult(feedbackLsb, g1)),
         r1Msb |-> Xor8(r.r0Msb, gfMult(feedbackMsb, g1)),
         r0Lsb |-> gfMult(feedbackLsb, g0),
         r0Msb |-> gfMult(feedbackMsb, g0)]

LfsrStep(sector, pos, r) ==
    LET dataLsb == IF pos < 4 THEN 0 ELSE At(sector, pos)
        dataMsb == IF pos < 3 THEN 0 ELSE At(sector, pos + 1)
        feedbackLsb == Xor8(dataLsb, r.r1Lsb)
        feedbackMsb == Xor8(dataMsb, r.r1Msb)
    IN  [r1Lsb |-> Xor8(r.r0Lsb, gfMult(feedbackLsb, g1)),
         r1Msb |-> Xor8(r.r0Msb, gfMult(feedbackMsb, g1)),
         r0Lsb |-> gfMult(feedbackLsb, g0),
         r0Msb |-> gfMult(feedbackMsb, g0)]

RegZero == [r0Lsb |-> 0, r0Msb |-> 0, r1Lsb |-> 0, r1Msb |-> 0]

\* pParityLFSR: the values of pos in the 24 rows of column col; pos starts
\* at 2*col and advances by 86 after each row
PLanePositions(col) ==
    LET Row(st, row) ==
            [pos |-> st.pos + 86, reads |-> Append(st.reads, st.pos)]
    IN  ForLoop(Row, 0, 24, [pos |-> 2 * col, reads |-> <<>>]).reads

\* a diagonal that advances like a column, by 86
QLaneStride86(diag) ==
    LET Step(st, step) ==
            LET p == IF st.pos >= 2236 THEN st.pos - 2236 ELSE st.pos
            IN  [pos |-> p + 86, reads |-> Append(st.reads, p)]
    IN  ForLoop(Step, 0, 43, [pos |-> 2 * 43 * diag, reads |-> <<>>]).reads

\* qParityLFSR: the values of pos in the 43 steps of diagonal diag; pos
\* starts at 2*43*diag, wraps at 2236 before the read, then advances by 88
QLanePositions(diag) ==
    LET Step(st, step) ==
            LET p == IF st.pos >= 2236 THEN st.pos - 2236 ELSE st.pos
            IN  [pos |-> p + 88, reads |-> Append(st.reads, p)]
    IN  ForLoop(Step, 0, 43, [pos |-> 2 * 43 * diag, reads |-> <<>>]).reads

\* the positions of all columns, and of all diagonals
PReads == [col \in 0..42 |-> PLanePositions(col)]

QReads == [diag \in 0..25 |-> QLanePositions(diag)]

\* pParityLFSR: the registers after the 24 rows of column col
PColumn(sector, col) ==
    LET Row(r, row) == LfsrStep(sector, PReads[col][row + 1], r)
    IN  ForLoop(Row, 0, 24, RegZero)

\* qParityLFSR: the registers after the 43 steps of diagonal diag
QDiagonal(sector, diag) ==
    LET Step(r, step) == LfsrStep(sector, QReads[diag][step + 1], r)
    IN  ForLoop(Step, 0, 43, RegZero)

\* parity[lane*2], [lane*2+1] = r1; parity[half+lane*2], [+1] = r0
ParityLayout(lanes, half) ==
    [k \in 1..(2 * half) |->
        LET j == (k - 1) % half
            r == lanes[j \div 2]
        IN  IF k - 1 < half
            THEN (IF j % 2 = 0 THEN r.r1Lsb ELSE r.r1Msb)
            ELSE (IF j % 2 = 0 THEN r.r0Lsb ELSE r.r0Msb)]

\* Panic stands for the run-time panic on a wrong input length: no parity is
\* returned
Panic == <<"panic">>

\* a generator that answers a wrong length with an empty parity
pParityLenient(sector) ==
    IF Len(sector) # 2064 THEN Zeros(172)
    ELSE ParityLayout([col \in 0..42 |-> PColumn(sector, col)],
                      86)

pParityLFSR(sector) ==
    IF Len(sector) # 2064 THEN Panic
    ELSE ParityLayout([col \in 0..42 |-> PColumn(sector, col)],
                      86)

qParityLFSR(sector) ==
    IF Len(sector) # 2236 THEN Panic
    ELSE ParityLayout([diag \in 0..25 |-> QDiagonal(sector, diag)],
                      52)

(***************************************************************************)
(* Disc addressing.                                                        *)
(***************************************************************************)
\* Go's / and % truncate toward zero
GoDiv(a, b) == IF a >= 0 THEN a \div b ELSE -((-a) \div b)

GoMod(a, b) == a - b * GoDiv(a, b)

lbaToMSF(lba) ==
    [min |-> GoDiv(lba, 60 * 75),
     sec |-> GoMod(GoDiv(lba, 75), 60),
     frame |-> GoMod(lba, 75)]

\* the value itself, not its decimal digits
toBinary(value) == value % 256

\* byte((value/10)<<4 | (value%10)) for value >= 0: the nibbles do not overlap
toBCD(value) == (((value \div 10) * 16) + (value % 10)) % 256

(***************************************************************************)
(* The descriptor (.pmf.ff) as the scanner sees it: a sequence of lines.   *)
(* A line is [kind, arg, nums]:                                            *)
(*   "blank"   empty after TrimSpace                                       *)
(*   "order"   starts with AUDIO_BYTE_ORDER: ; arg is the trimmed rest     *)
(*   "count"   starts with %NUMBER_OF_ADDED_TRACKS ; nums is the number    *)
(*             Sscanf reads after it (empty when it reads none)            *)
(*   "marker"  starts with %START_OF_ADDED_TRACK_DATA                      *)
(*   "text"    any other line; nums is the leading run of integers that    *)
(*             Sscanf("%d %d %d %d") can read from it                      *)
(***************************************************************************)
Line(kind, arg, nums) == [kind |-> kind, arg |-> arg, nums |-> nums]

BlankLine == Line("blank", "", <<>>)

OrderLine(order) == Line("order", order, <<>>)

CountLine(n) == Line("count", "", <<n>>)

MarkerLine == Line("marker", "", <<>>)

TrackLine(num, mode, start, end) == Line("text", "", <<num, mode, start, end>>)

Track(num, mode, start, end, pregap) ==
    [Num |-> num, Mode |-> mode, Start |-> start, End |-> end,
     Pregap |-> pregap]

(***************************************************************************)
(* parseFF, scanner loop body: one line against the scan state             *)
(* sc = [audioMSB, numExpected, inSection, tracks].                        *)
(***************************************************************************)
\* a scanner that takes track lines wherever they stand
ScanLineAnywhere(sc, line) ==
    IF line.kind = "blank" THEN sc
    ELSE IF line.kind = "order"
         THEN [sc EXCEPT !.audioMSB = (line.arg = "AUDIO_MSB")]
    ELSE IF line.kind = "count"
         THEN IF Len(line.nums) >= 1
              THEN [sc EXCEPT !.numExpected = line.nums[1]]
              ELSE sc
    ELSE IF line.kind = "marker"
         THEN [sc EXCEPT !.inSection = TRUE]
    ELSE IF Len(line.nums) < 4 THEN sc
    ELSE [sc EXCEPT !.tracks =
             Append(@, Track(line.nums[1], line.nums[2], line.nums[3],
                             line.nums[4], 0))]

ScanLine(sc, line) ==
    IF line.kind = "blank" THEN sc
    ELSE IF line.kind = "order"
         THEN [sc EXCEPT !.audioMSB = (line.arg = "AUDIO_MSB")]
    ELSE IF line.kind = "count"
         THEN IF Len(line.nums) >= 1
              THEN [sc EXCEPT !.numExpected = line.nums[1]]
              ELSE sc
    ELSE IF line.kind = "marker"
         THEN [sc EXCEPT !.inSection = TRUE]
    ELSE IF ~sc.inSection THEN sc
    ELSE IF Len(line.nums) < 4 THEN sc
    ELSE [sc EXCEPT !.tracks =
             Append(@, Track(line.nums[1], line.nums[2], line.nums[3],
                             line.nums[4], 0))]

(***************************************************************************)
(* parseFF after the scanner loop.  Errors are named by their message.     *)
(***************************************************************************)
NoError == "nil"

\* a validation loop body that checks nothing and computes no pregap
SkipValidation(st, i) == st

\* one iteration of "Validate each track" (0-based i); st = [tracks, err, warned]
ValidateTrack(st, i) ==
    IF st.err # NoError THEN st
    ELSE
    LET t == At(st.tracks, i)
    IN  IF t.Mode # 2 /\ t.Mode # 4
        THEN [st EXCEPT !.err = "invalid mode"]
        ELSE IF t.Num # i + 1
        THEN [st EXCEPT !.err = "numbering mismatch"]
        ELSE IF t.Start > t.End
        THEN [st EXCEPT !.err = "start after end"]
        ELSE
        LET pregap == IF i = 0 THEN 0
                      ELSE t.Start - At(st.tracks, i - 1).End - 1
            st2 == [st EXCEPT !.tracks[i + 1].Pregap = pregap]
        IN  IF i > 0 /\ pregap < 0
            THEN [st2 EXCEPT !.err = "negative pregap"]
            ELSE IF i > 0 /\ t.Start <= At(st.tracks, i - 1).End
            THEN [st2 EXCEPT !.err = "overlaps previous track"]
            ELSE IF i > 0 /\ At(st.tracks, i - 1).Mode = 4 /\ t.Mode # 4
            THEN [st2 EXCEPT !.warned = @ + 1]
            ELSE st2

\* "Verify tracks align with PMF size": the running sum after track i
ExpectedSizeStep(expectedSize, t) ==
    LET sectorCount == t.End - t.Start + 1
    IN  IF t.Mode = 4 THEN expectedSize + sectorCount * binSector
        ELSE expectedSize + sectorCount * pmfSector

ExpectedSize(tracks) ==
    LET Body(acc, i) == ExpectedSizeStep(acc, At(tracks, i))
    IN  ForLoop(Body, 0, Len(tracks), 0)

\* a parseFF that returns whatever it scanned
AcceptAll(tracks, numExpected, pmfLen) ==
    [tracks |-> tracks, err |-> NoError, warned |-> 0]

\* the result of parseFF: [tracks, err, warned]; tracks is nil (<<>>) on error
Validate(tracks, numExpected, pmfLen) ==
    LET Fail(e, w) == [tracks |-> <<>>, err |-> e, warned |-> w]
    IN  IF Len(tracks) = 0 THEN Fail("no tracks found", 0)
        ELSE IF numExpected > 0 /\ Len(tracks) # numExpected
        THEN Fail("track count mismatch", 0)
        ELSE
        LET st == ForLoop(ValidateTrack, 0, Len(tracks),
                          [tracks |-> tracks, err |-> NoError, warned |-> 0])
        IN  IF st.err # NoError THEN Fail(st.err, st.warned)
            ELSE IF ExpectedSize(st.tracks) # pmfLen
            THEN Fail("PMF length mismatch", st.warned)
            ELSE st

(***************************************************************************)
(* buildBin: the sectors it writes.                                        *)
(***************************************************************************)
\* copy(sector[at:at+len(bytes)], bytes)
CopyInto(sector, at, bytes) ==
    [k \in 1..Len(sector) |->
        IF k > at /\ k <= at + Len(bytes) THEN bytes[k - at] ELSE sector[k]]

\* the 4-byte header: BCD minute, second, frame of lba, then the mode byte
Header(lba, mode) ==
    LET msf == lbaToMSF(lba)
    IN  <<toBCD(msf.min), toBCD(msf.sec), toBCD(msf.frame), mode % 256>>

\* a pregap sector with sync and header whatever the mode of the track
PregapSectorFramed(t, s) ==
    CopyInto(CopyInto(Zeros(binSector), 0, SyncPattern), 12,
             Header(t.Start - t.Pregap + s + LeadIn, t.Mode))

\* pregap sector s (0-based) of track t
PregapSector(t, s) ==
    LET lba == t.Start - t.Pregap + s + LeadIn
        empty == Zeros(binSector)
    IN  IF t.Mode = 2
        THEN CopyInto(CopyInto(empty, 0, SyncPattern), 12, Header(lba, t.Mode))
        ELSE empty

\* no swap at all
KeepPairs(data) == data

\* the loop "for i := 0; i+1 < len(data); i += 2 { swap data[i], data[i+1] }"
SwapPairs(data) ==
    [k \in 1..Len(data) |->
        IF k % 2 = 1 THEN (IF k + 1 <= Len(data) THEN data[k + 1] ELSE data[k])
        ELSE data[k - 1]]

\* a data sector up to the user data; EDC and ECC still zero
DataSectorBody(raw, s, mode) ==
    LET sub == Slice(raw, 0, 8)
        data == Slice(raw, 8, Len(raw))
        s1 == CopyInto(Zeros(binSector), 0, SyncPattern)
        s2 == CopyInto(s1, 12, Header(s + LeadIn, mode))
        s3 == CopyInto(s2, 16, sub)
    IN  CopyInto(s3, 24, data)

\* sector[12:2076] and sector[12:2248], what the parity generators are given
PInput(sector) == Slice(sector, 12, 2076)

QInput(sector) == Slice(sector, 12, 2248)

\* part_000: EDC, then P-parity over the EDC, then Q-parity over both
DataSectorEcc(raw, s, mode) ==
    LET s4 == DataSectorBody(raw, s, mode)
        s5 == CopyInto(s4, 2072, computeEDC(Slice(s4, 16, 2072)))
        s6 == CopyInto(s5, 2076, pParityLFSR(PInput(s5)))
    IN  CopyInto(s6, 2248, qParityLFSR(QInput(s6)))

\* pmf2bin.go: "EDC and ECC remain zeros"
DataSectorStub(raw, s, mode) == DataSectorBody(raw, s, mode)

(***************************************************************************)
(* writeCue: one entry per track.  index00 is <<>> when no INDEX 00 line   *)
(* is written.                                                             *)
(***************************************************************************)
\* a cue sheet whose times include the 150 sectors of lead-in
CueEntryLeadIn(t) ==
    [track |-> t.Num,
     type |-> IF t.Mode = 4 THEN "AUDIO" ELSE "MODE2/2352",
     index00 |-> IF t.Pregap > 0
                 THEN <<lbaToMSF(t.Start - t.Pregap + LeadIn)>> ELSE <<>>,
     index01 |-> lbaToMSF(t.Start + LeadIn)]

CueEntry(t) ==
    [track |-> t.Num,
     type |-> IF t.Mode = 4 THEN "AUDIO" ELSE "MODE2/2352",
     index00 |-> IF t.Pregap > 0 THEN <<lbaToMSF(t.Start - t.Pregap)>>
                 ELSE <<>>,
     index01 |-> lbaToMSF(t.Start)]

CueSheet(tt) == [k \in 1..Len(tt) |-> CueEntry(tt[k])]

(***************************************************************************)
(* State.                                                                  *)
(***************************************************************************)
VARIABLES
    ff,          \* the descriptor file: its lines
    pmf,         \* the payload buffer (main's pmf, buildBin's pmf), held as
                 \* [pat, len, swapped]: the len bytes of pattern pat read
                 \* from the file, the 2352-byte chunks at the offsets in
                 \* swapped pair-swapped in place since
    pmfLen,      \* parseFF's pmfLen argument
    build,       \* which build of buildBin runs: "ecc" (part_000) or
                 \* "stub" (pmf2bin.go)
    pc,          \* "open", "scan", "parsed", "build", "built", "exit"
    lineIdx,     \* lines of ff consumed by the scanner
    audioMSB,    \* package variable audioMSB
    numExpected, \* parseFF local
    inSection,   \* parseFF local
    scanned,     \* parseFF local tracks while scanning
    tracks,      \* the table parseFF returned (buildBin's argument)
    parseErr,    \* the error parseFF returned
    warned,      \* advisories printed by parseFF
    ti,          \* buildBin: index of the track in the range loop
    phase,       \* buildBin: "track", "pregap", "payload"
    sIdx,        \* buildBin: loop variable s of the running sector loop
    offset,      \* buildBin: payload cursor
    image,       \* the sectors written to the image, in order
    emitted,     \* history: for each sector written, what it is
    binCreated,  \* os.Create(outPath) succeeded
    buildErr,    \* the error buildBin returned
    cue,         \* the cue sheet written
    cueCalled,   \* writeCue was invoked
    call         \* a call of one function on its own: [fn, arg, res, done]

vars == <<ff, pmf, pmfLen, build, pc, lineIdx, audioMSB, numExpected,
          inSection, scanned, tracks, parseErr, warned, ti, phase, sIdx,
          offset, image, emitted, binCreated, buildErr, cue, cueCalled,
          call>>

inputVars == <<ff, pmfLen, build, call>>

parseVars == <<lineIdx, audioMSB, numExpected, inSection, scanned, tracks,
               parseErr, warned>>

buildVars == <<pmf, ti, phase, sIdx, offset, image, emitted, binCreated,
               buildErr>>

cueVars == <<cue, cueCalled>>

(***************************************************************************)
(* Inputs.  A table row is <<num, mode, start, end>>.                      *)
(***************************************************************************)
MaxLBA == 2

MaxTracks == 2

NumPatterns == 1

Builds == {"ecc", "stub"}

\* payload contents: byte i (0-based) of pattern p
PatternByte(p, i) ==
    ((i % 251) * (7 + 2 * p) + (i \div 251) * 3 + p) % 256

\* os.ReadFile(pmfPath): len bytes of pattern p, nothing swapped yet
Buffer(p, len) == [pat |-> p, len |-> len, swapped |-> {}]

\* len(pmf)
BufLen(b) == b.len

\* pmf[i]: inside a chunk swapped in place, the byte read from the file at
\* the other index of the pair
BufByte(b, i) ==
    IF \E o \in b.swapped : o <= i /\ i < o + binSector
    THEN LET off == CHOOSE o \in b.swapped : o <= i /\ i < o + binSector
             j == i - off
         IN  PatternByte(b.pat, off + (IF j % 2 = 0 THEN j + 1 ELSE j - 1))
    ELSE PatternByte(b.pat, i)

\* pmf[lo:hi]
BufSlice(b, lo, hi) == [k \in 1..(hi - lo) |-> BufByte(b, lo + k - 1)]

\* the swap loop run on data := pmf[off:off+2352], a slice that shares the
\* bytes of pmf; a second run on the same chunk would undo the first
SwapInPlace(b, off) ==
    [b EXCEPT !.swapped = (@ \ {off}) \cup ({off} \ @)]

Patterns == 0..(NumPatterns - 1)

\* the rows numbered n with a valid mode
Rows(n) == {n} \X {2, 4} \X (0..MaxLBA) \X (0..MaxLBA)

\* row r may follow the rows tt in a well-formed table
Follows(tt, r) ==
    /\ r[3] <= r[4]
    /\ tt # <<>> => r[3] > tt[Len(tt)][4]

\* the well-formed tables of at most n rows (the empty one included)
RECURSIVE Tables(_)
Tables(n) ==
    IF n = 0 THEN {<<>>}
    ELSE LET prev == Tables(n - 1)
             longest == {x \in prev : Len(x) = n - 1}
         IN  prev \cup {Append(q[1], q[2]) :
                           q \in {c \in longest \X Rows(n) :
                                      Follows(c[1], c[2])}}

\* any row: wrong numbers, invalid modes and reversed ranges included
AnyRows == (1..MaxTracks) \X {2, 3, 4} \X (0..MaxLBA) \X (0..MaxLBA)

\* the scenarios of the specification's section 8
ScenarioAdjacent == << <<1, 2, 0, 10>>, <<2, 4, 11, 20>> >>

ScenarioGap == << <<1, 2, 0, 10>>, <<2, 4, 12, 20>> >>

ScenarioOverlap == << <<1, 4, 0, 5>>, <<2, 2, 5, 10>> >>

\* payload bytes the rows stand for
RowBytes(r) ==
    (r[4] - r[3] + 1) * (IF r[2] = 4 THEN binSector ELSE pmfSector)

RECURSIVE RowsBytes(_)
RowsBytes(rows) ==
    IF rows = <<>> THEN 0 ELSE RowBytes(Head(rows)) + RowsBytes(Tail(rows))

Max0(n) == IF n < 0 THEN 0 ELSE n

\* order "" and count -1 stand for an absent directive
Descriptor(order, count, rows) ==
    (IF order = "" THEN <<>> ELSE <<OrderLine(order)>>)
    \o (IF count < 0 THEN <<>> ELSE <<CountLine(count)>>)
    \o <<MarkerLine>>
    \o [k \in 1..Len(rows) |->
           TrackLine(rows[k][1], rows[k][2], rows[k][3], rows[k][4])]

\* the table parseFF returns for well-formed rows
RowsTable(rows) ==
    [k \in 1..Len(rows) |->
        Track(rows[k][1], rows[k][2], rows[k][3], rows[k][4],
              IF k = 1 THEN 0 ELSE rows[k][3] - rows[k - 1][4] - 1)]

\* main: well-formed tables with a payload of the right length or one byte off
MainInputs ==
    {[ff |-> Descriptor(o, -1, rows), len |-> Max0(RowsBytes(rows) + d)] :
        o \in {"", "AUDIO_MSB"}, rows \in Tables(MaxTracks) \ {<<>>},
        d \in {-1, 0, 1}}
    \cup {[ff |-> Descriptor("", 2, ScenarioGap),
           len |-> RowsBytes(ScenarioGap)],
          [ff |-> Descriptor("", 2, ScenarioAdjacent),
           len |-> RowsBytes(ScenarioAdjacent) - 1]}

\* parseFF alone: tables whose last or first row is any row
ParseRows ==
    {Append(tt, r) : tt \in Tables(MaxTracks - 1), r \in AnyRows}
    \cup {c \in AnyRows \X Rows(2) : Follows(<<c[1]>>, c[2])}
    \cup {<<>>, ScenarioAdjacent, ScenarioGap, ScenarioOverlap}

\* the track lines of rows with no section marker before them
Unmarked(rows) ==
    <<BlankLine>>
    \o [k \in 1..Len(rows) |->
           TrackLine(rows[k][1], rows[k][2], rows[k][3], rows[k][4])]

\* a line in the section with fewer than four numbers
ShortLine == Line("text", "", <<1, 2, 0>>)

\* one deviation at a time: the marker, a line that is no track line,
\* directives after the marker, the length, the declared count, the byte
\* order
Variants ==
    {"unmarked", "twice", "short", "late", "less", "exact", "more", "count0",
     "count", "count+1", "msb", "lsb"}

ParseVariant(rows, v) ==
    LET size == Max0(RowsBytes(rows))
        In(f, n) == [ff |-> f, len |-> n]
    IN  CASE v = "unmarked" -> In(Unmarked(rows), size)
          [] v = "twice" ->
                In(Unmarked(rows) \o Descriptor("", -1, rows), size)
          [] v = "short" ->
                In(Descriptor("", -1, rows) \o <<ShortLine, BlankLine>>, size)
          [] v = "late" ->
                In(<<MarkerLine>> \o Descriptor("AUDIO_MSB", Len(rows), rows),
                   size)
          [] v = "less" ->
                In(Descriptor("", -1, rows), Max0(RowsBytes(rows) - 1))
          [] v = "exact" -> In(Descriptor("", -1, rows), size)
          [] v = "more" ->
                In(Descriptor("", -1, rows), Max0(RowsBytes(rows) + 1))
          [] v = "count0" -> In(Descriptor("", 0, rows), size)
          [] v = "count" -> In(Descriptor("", Len(rows), rows), size)
          [] v = "count+1" -> In(Descriptor("", Len(rows) + 1, rows), size)
          [] v = "msb" -> In(Descriptor("AUDIO_MSB", -1, rows), size)
          [] v = "lsb" -> In(Descriptor("AUDIO_LSB", -1, rows), size)

ParseInputs == {ParseVariant(rows, v) : rows \in ParseRows, v \in Variants}

\* buildBin alone: a returned table, any flag, a payload up to one byte off
BuildInputs ==
    {[tracks |-> RowsTable(rows), len |-> Max0(RowsBytes(rows) + d)] :
        rows \in Tables(MaxTracks) \ {<<>>}, d \in {-1, 0, 1}}

(***************************************************************************)
(* Initial states.                                                         *)
(***************************************************************************)
ParseStart ==
    /\ lineIdx = 0 /\ audioMSB = FALSE /\ numExpected = 0
    /\ inSection = FALSE /\ scanned = <<>>
    /\ tracks = <<>> /\ parseErr = NoError /\ warned = 0

BuildStart ==
    /\ ti = 0 /\ phase = "track" /\ sIdx = 0 /\ offset = 0
    /\ image = <<>> /\ emitted = <<>> /\ binCreated = FALSE
    /\ buildErr = NoError
    /\ cue = <<>> /\ cueCalled = FALSE

\* no function is called on its own
NoCall == [fn |-> "none", arg |-> <<>>, res |-> <<>>, done |-> TRUE]

\* main, after ReadFile(pmfPath) succeeded, about to call parseFF
Init ==
    /\ \E in \in MainInputs, p \in Patterns :
          /\ ff = in.ff
          /\ pmf = Buffer(p, in.len)
    /\ pmfLen = BufLen(pmf)
    /\ build \in Builds
    /\ pc = "open"
    /\ ParseStart
    /\ BuildStart
    /\ call = NoCall

\* a call parseFF(ffPath, pmfLen)
InitParse ==
    /\ \E in \in ParseInputs : ff = in.ff /\ pmfLen = in.len
    /\ pmf = Buffer(0, pmfLen)
    /\ build = "ecc"
    /\ pc = "open"
    /\ ParseStart
    /\ BuildStart
    /\ call = NoCall

\* a call buildBin(pmf, tracks, outPath)
InitBuild ==
    /\ \E in \in BuildInputs, p \in Patterns :
          /\ tracks = in.tracks
          /\ pmf = Buffer(p, in.len)
    /\ pmfLen = BufLen(pmf)
    /\ build \in Builds
    /\ audioMSB \in BOOLEAN
    /\ ff = <<>>
    /\ pc = "parsed"
    /\ lineIdx = 0 /\ numExpected = 0 /\ inSection = FALSE /\ scanned = <<>>
    /\ parseErr = NoError /\ warned = 0
    /\ BuildStart
    /\ call = NoCall

(***************************************************************************)
(* parseFF.                                                                *)
(***************************************************************************)
\* os.Open(ffPath): it may fail
ParseOpen ==
    /\ pc = "open"
    /\ \E ok \in BOOLEAN :
          IF ok THEN pc' = "scan" /\ parseErr' = parseErr
          ELSE pc' = "parsed" /\ parseErr' = "failed to open"
    /\ UNCHANGED <<lineIdx, audioMSB, numExpected, inSection, scanned, tracks,
                   warned>>
    /\ UNCHANGED <<inputVars, buildVars, cueVars>>

\* one iteration of "for scanner.Scan()"
ScanStep ==
    /\ pc = "scan"
    /\ lineIdx < Len(ff)
    /\ LET sc == ScanLine([audioMSB |-> audioMSB, numExpected |-> numExpected,
                           inSection |-> inSection, tracks |-> scanned],
                          At(ff, lineIdx))
       IN  /\ audioMSB' = sc.audioMSB
           /\ numExpected' = sc.numExpected
           /\ inSection' = sc.inSection
           /\ scanned' = sc.tracks
    /\ lineIdx' = lineIdx + 1
    /\ UNCHANGED <<pc, tracks, parseErr, warned>>
    /\ UNCHANGED <<inputVars, buildVars, cueVars>>

\* end of input: the checks, and the return
ScanDone ==
    /\ pc = "scan"
    /\ lineIdx = Len(ff)
    /\ LET res == Validate(scanned, numExpected, pmfLen)
       IN  /\ tracks' = res.tracks
           /\ parseErr' = res.err
           /\ warned' = res.warned
    /\ pc' = "parsed"
    /\ UNCHANGED <<lineIdx, audioMSB, numExpected, inSection, scanned>>
    /\ UNCHANGED <<inputVars, buildVars, cueVars>>

(***************************************************************************)
(* main.                                                                   *)
(***************************************************************************)
\* a main that goes on whatever parseFF returned
NoFailure == FALSE

\* "if err != nil" after parseFF
ParseFailed == parseErr # NoError

\* "if err != nil" after buildBin
BuildFailed == buildErr # NoError

\* log "Failed to parse/validate" and return
MainParseFailed ==
    /\ pc = "parsed"
    /\ ParseFailed
    /\ pc' = "exit"
    /\ UNCHANGED <<inputVars, parseVars, buildVars, cueVars>>

\* log "Failed to build bin" and return
MainBuildFailed ==
    /\ pc = "built"
    /\ BuildFailed
    /\ pc' = "exit"
    /\ UNCHANGED <<inputVars, parseVars, buildVars, cueVars>>

\* writeCue(tracks, outCue, outBin): os.Create may fail
WriteCue ==
    /\ pc = "built"
    /\ ~BuildFailed
    /\ cueCalled' = TRUE
    /\ \E ok \in BOOLEAN : cue' = IF ok THEN CueSheet(tracks) ELSE <<>>
    /\ pc' = "exit"
    /\ UNCHANGED <<inputVars, parseVars, buildVars>>

(***************************************************************************)
(* buildBin.                                                               *)
(***************************************************************************)
\* a cursor that takes 2352 bytes for every sector
ChunkEndAudio(off, mode) == off + binSector

\* end := offset + binSector (audio) or offset + pmfSector (data)
ChunkEnd(off, mode) ==
    IF mode = 4 THEN off + binSector ELSE off + pmfSector

\* a chunk that ends with the payload counted as truncated
TruncatedAtEnd(end, len) == end >= len

\* "if end > len(pmf)"
Truncated(end, len) == end > len

\* "if offset != len(pmf)" after the loop
Unconsumed(off, len) == off # len

\* the data sector of the running build
DataSector(raw, s, mode) ==
    IF build = "ecc" THEN DataSectorEcc(raw, s, mode)
    ELSE DataSectorStub(raw, s, mode)

\* os.Create(outPath): it may fail
BuildCreate ==
    /\ pc = "parsed"
    /\ ~ParseFailed
    /\ \E ok \in BOOLEAN :
          IF ok
          THEN binCreated' = TRUE /\ pc' = "build" /\ buildErr' = buildErr
          ELSE binCreated' = FALSE /\ pc' = "built"
               /\ buildErr' = "Failed to create"
    /\ ti' = 0 /\ phase' = "track" /\ offset' = 0
    /\ UNCHANGED <<pmf, sIdx, image, emitted>>
    /\ UNCHANGED <<inputVars, parseVars, cueVars>>

\* "for _, t := range tracks": the next track, its pregap loop starts
TrackBegin ==
    /\ pc = "build" /\ phase = "track"
    /\ ti < Len(tracks)
    /\ phase' = "pregap" /\ sIdx' = 0
    /\ UNCHANGED <<pc, pmf, ti, offset, image, emitted, binCreated, buildErr>>
    /\ UNCHANGED <<inputVars, parseVars, cueVars>>

\* one iteration of "for s := 0; s < t.Pregap; s++"
WritePregap ==
    /\ pc = "build" /\ phase = "pregap"
    /\ sIdx < At(tracks, ti).Pregap
    /\ LET t == At(tracks, ti)
       IN  /\ image' = Append(image, PregapSector(t, sIdx))
           /\ emitted' = Append(emitted,
                  [kind |-> "pregap", track |-> ti,
                   lba |-> t.Start - t.Pregap + sIdx,
                   from |-> offset, to |-> offset])
    /\ sIdx' = sIdx + 1
    /\ UNCHANGED <<pc, pmf, ti, phase, offset, binCreated, buildErr>>
    /\ UNCHANGED <<inputVars, parseVars, cueVars>>

\* the pregap loop ends, "for s := t.Start; s <= t.End; s++" starts
PregapEnd ==
    /\ pc = "build" /\ phase = "pregap"
    /\ sIdx >= At(tracks, ti).Pregap
    /\ phase' = "payload" /\ sIdx' = At(tracks, ti).Start
    /\ UNCHANGED <<pc, pmf, ti, offset, image, emitted, binCreated, buildErr>>
    /\ UNCHANGED <<inputVars, parseVars, cueVars>>

\* one iteration of the payload loop: an audio or a data sector, or the
\* truncation error
WritePayload ==
    /\ pc = "build" /\ phase = "payload"
    /\ sIdx <= At(tracks, ti).End
    /\ LET t == At(tracks, ti)
           end == ChunkEnd(offset, t.Mode)
       IN  IF Truncated(end, BufLen(pmf))
           THEN /\ buildErr' = "PMF truncated"
                /\ pc' = "built"
                /\ UNCHANGED <<pmf, sIdx, offset, image, emitted>>
           ELSE LET raw == BufSlice(pmf, offset, end)
                    data == IF t.Mode = 4
                            THEN (IF audioMSB THEN SwapPairs(raw) ELSE raw)
                            ELSE DataSector(raw, sIdx, t.Mode)
                IN  /\ pmf' = IF t.Mode = 4 /\ audioMSB
                              THEN SwapInPlace(pmf, offset)
                              ELSE pmf
                    /\ image' = Append(image, data)
                    /\ emitted' = Append(emitted,
                           [kind |-> IF t.Mode = 4 THEN "audio" ELSE "data",
                            track |-> ti, lba |-> sIdx,
                            from |-> offset, to |-> end])
                    /\ offset' = end
                    /\ sIdx' = sIdx + 1
                    /\ UNCHANGED <<pc, buildErr>>
    /\ UNCHANGED <<ti, phase, binCreated>>
    /\ UNCHANGED <<inputVars, parseVars, cueVars>>

\* the payload loop ends: on to the next track
TrackEnd ==
    /\ pc = "build" /\ phase = "payload"
    /\ sIdx > At(tracks, ti).End
    /\ ti' = ti + 1 /\ phase' = "track"
    /\ UNCHANGED <<pc, pmf, sIdx, offset, image, emitted, binCreated,
                   buildErr>>
    /\ UNCHANGED <<inputVars, parseVars, cueVars>>

\* after the last track: flush, then the check of the cursor
BuildFinish ==
    /\ pc = "build" /\ phase = "track"
    /\ ti >= Len(tracks)
    /\ buildErr' = IF Unconsumed(offset, BufLen(pmf))
                   THEN "PMF file not fully consumed" ELSE NoError
    /\ pc' = "built"
    /\ UNCHANGED <<pmf, ti, phase, sIdx, offset, image, emitted, binCreated>>
    /\ UNCHANGED <<inputVars, parseVars, cueVars>>

(***************************************************************************)
(* Specifications.                                                         *)
(***************************************************************************)
ParseNext == ParseOpen \/ ScanStep \/ ScanDone

BuildNext ==
    \/ BuildCreate \/ TrackBegin \/ WritePregap \/ PregapEnd
    \/ WritePayload \/ TrackEnd \/ BuildFinish

Next ==
    \/ ParseOpen \/ ScanStep \/ ScanDone
    \/ MainParseFailed \/ MainBuildFailed \/ WriteCue
    \/ BuildCreate \/ TrackBegin \/ WritePregap \/ PregapEnd
    \/ WritePayload \/ TrackEnd \/ BuildFinish

\* the program
Spec == Init /\ [][Next]_vars

\* parseFF called on its own
SpecParse == InitParse /\ [][ParseNext]_vars

\* buildBin called on its own
SpecBuild == InitBuild /\ [][BuildNext]_vars

(***************************************************************************)
(* Functions called on their own: call = [fn, arg, res, done] holds the    *)
(* function, its argument and, once done, what it returned.                *)
(***************************************************************************)
\* the program is not running
Idle ==
    /\ ff = <<>> /\ pmf = Buffer(0, 0) /\ pmfLen = 0 /\ build = "ecc"
    /\ pc = "none"
    /\ audioMSB = FALSE
    /\ ParseStart
    /\ BuildStart

progVars == <<ff, pmfLen, build, pc, parseVars, buildVars, cueVars>>

Call(fn, arg) == [fn |-> fn, arg |-> arg, res |-> <<>>, done |-> FALSE]

\* the call returns res
Return(res) ==
    /\ call' = [call EXCEPT !.res = res, !.done = TRUE]
    /\ UNCHANGED progVars

Calling(fn) == call.fn = fn /\ ~call.done

MaxCallLBA == 300

MaxBcdValue == 120

\* LBAs: the first ones, and the first and last frames and seconds of every
\* minute up to 99, and of minute 100
LbaSamples ==
    (0..MaxCallLBA)
    \cup {4500 * m + r : m \in 0..100, r \in {0, 74, 75, 4499}}

TimeCalls ==
    {Call("lbaToMSF", lba) : lba \in LbaSamples}
    \cup {Call("toBCD", v) : v \in 0..MaxBcdValue}
    \cup {Call("header", lba) : lba \in LbaSamples}

InitTime == Idle /\ call \in TimeCalls

CallLbaToMSF == Calling("lbaToMSF") /\ Return(lbaToMSF(call.arg))

CallToBCD == Calling("toBCD") /\ Return(toBCD(call.arg))

\* the header of payload sector s = call.arg of a data track
CallHeader == Calling("header") /\ Return(Header(call.arg + LeadIn, 2))

TimeNext == CallLbaToMSF \/ CallToBCD \/ CallHeader

\* lbaToMSF, toBCD and the sector header called on their own
SpecTime == InitTime /\ [][TimeNext]_vars

MaxEdcLen == 3

\* bytes with no, one, several and all bits set
EdcBytes == {0, 1, 128, 165, 255}

\* the bytes a data sector is summed over: subheader and payload
EdcSpan == 2056

RECURSIVE ByteSeqs(_)
ByteSeqs(n) ==
    IF n = 0 THEN {<<>>}
    ELSE {Append(d, b) : d \in ByteSeqs(n - 1), b \in EdcBytes}

LongSpan == [i \in 1..EdcSpan |-> PatternByte(0, i - 1)]

\* a byte span and one bit of it (byte at, bit bit); the empty span has none
EdcCalls ==
    {Call("computeEDC", [data |-> d, at |-> at, bit |-> bit]) :
        d \in UNION {ByteSeqs(n) : n \in 1..MaxEdcLen},
        at \in 0..MaxEdcLen - 1, bit \in 0..7}
    \cup {Call("computeEDC", [data |-> LongSpan, at |-> at, bit |-> bit]) :
            at \in {0, EdcSpan \div 2, EdcSpan - 1}, bit \in {0, 7}}
    \cup {Call("computeEDC", [data |-> <<>>, at |-> 0, bit |-> 0])}

FlipBit(data, at, bit) ==
    IF at < Len(data)
    THEN [data EXCEPT ![at + 1] = Xor8(@, 2 ^ bit)]
    ELSE data

InitEdc ==
    /\ Idle
    /\ call \in {c \in EdcCalls : c.arg.at < Len(c.arg.data)
                                   \/ (c.arg.at = 0 /\ c.arg.bit = 0)}

\* computeEDC on the span, and again on the span with the one bit flipped
CallComputeEDC ==
    /\ Calling("computeEDC")
    /\ Return([edc     |-> computeEDC(call.arg.data),
               flipped |-> computeEDC(FlipBit(call.arg.data, call.arg.at,
                                              call.arg.bit))])

\* computeEDC called on its own
SpecEdc == InitEdc /\ [][CallComputeEDC]_vars

Byte == 0..255

GfCalls == {Call("gfMult", [a |-> a, b |-> b]) : a \in Byte, b \in Byte}

InitGf == Idle /\ call \in GfCalls

\* gfMult on (a, b), and on (b, a)
CallGfMult ==
    /\ Calling("gfMult")
    /\ Return([ab |-> gfMult(call.arg.a, call.arg.b),
               ba |-> gfMult(call.arg.b, call.arg.a)])

\* gfMult called on its own
SpecGf == InitGf /\ [][CallGfMult]_vars

NumParitySectors == 2

\* the byte offsets that get another value: the header, and two after it
MaxChangedAt == 5

\* how much is added to the byte that changes
Deltas == {1, 128}

\* input lengths the generators refuse
WrongLengths == {0, 2063, 2065, 2235, 2237, binSector}

PatternSector(p, len) == [i \in 1..len |-> PatternByte(p, i - 1)]

\* arg = [sector, at, delta]: the input, and the offset and amount of the
\* one byte that differs in a second input
ParityCalls(fn, len) ==
    {Call(fn, [sector |-> PatternSector(p, len), at |-> at, delta |-> d]) :
        p \in 0..NumParitySectors - 1, at \in 0..MaxChangedAt, d \in Deltas}
    \cup {Call(fn, [sector |-> PatternSector(0, n), at |-> 0, delta |-> 0]) :
            n \in WrongLengths \cup {2064 + 2236 - len}}

\* arg = [raw, first, second]: one 2056-byte chunk and two sector numbers
SectorCalls ==
    {Call("dataSector",
          [raw |-> PatternSector(0, pmfSector), first |-> s[1],
           second |-> s[2]]) :
        s \in {<<0, 1>>, <<0, 75>>, <<74, 4500>>}}

InitParity ==
    /\ Idle
    /\ call \in ParityCalls("pParityLFSR", 2064)
                \cup ParityCalls("qParityLFSR", 2236)
                \cup SectorCalls

ChangeByte(sector, at, delta) ==
    IF at < Len(sector)
    THEN [sector EXCEPT ![at + 1] = (@ + delta) % 256]
    ELSE sector

\* pParityLFSR on the input, on it again, and on the second input; reads are
\* the values pos took
CallPParity ==
    /\ Calling("pParityLFSR")
    /\ Return([parity  |-> pParityLFSR(call.arg.sector),
               again   |-> pParityLFSR(call.arg.sector),
               changed |-> pParityLFSR(ChangeByte(call.arg.sector, call.arg.at,
                                                  call.arg.delta)),
               reads   |-> IF Len(call.arg.sector) = 2064 THEN PReads
                           ELSE <<>>])

CallQParity ==
    /\ Calling("qParityLFSR")
    /\ Return([parity  |-> qParityLFSR(call.arg.sector),
               again   |-> qParityLFSR(call.arg.sector),
               changed |-> qParityLFSR(ChangeByte(call.arg.sector, call.arg.at,
                                                  call.arg.delta)),
               reads   |-> IF Len(call.arg.sector) = 2236 THEN QReads
                           ELSE <<>>])

\* the same chunk encoded as payload sector first, and as payload sector
\* second, of a data track
CallDataSector ==
    /\ Calling("dataSector")
    /\ Return([first  |-> DataSector(call.arg.raw, call.arg.first, 2),
               second |-> DataSector(call.arg.raw, call.arg.second, 2)])

ParityNext == CallPParity \/ CallQParity \/ CallDataSector

\* the parity generators called on their own, and by the sector encoder
SpecParity == InitParity /\ [][ParityNext]_vars

(***************************************************************************)
(* Properties.                                                             *)
(***************************************************************************)
\* the payload bytes a table stands for: 2352 per audio sector, 2056 per
\* sector of any other track
RECURSIVE TableBytes(_)
TableBytes(tt) ==
    IF tt = <<>> THEN 0
    ELSE LET t == Head(tt)
         IN  (t.End - t.Start + 1) * (IF t.Mode = 4 THEN 2352 ELSE 2056)
             + TableBytes(Tail(tt))

\* parseFF has returned
Parsed == pc = "parsed"

\* C1: whenever parseFF returns a table without error, the table is not
\* empty, every track has Num equal to its 1-based position, Mode 2 or 4 and
\* Start <= End, the first track has Pregap 0, every later track starts after
\* the end of the one before it with Pregap = Start - End(previous) - 1 >= 0,
\* and the sectors of the table times their unit sizes add up to pmfLen.
C1_TableInvariants ==
    (Parsed /\ parseErr = NoError) =>
        /\ Len(tracks) > 0
        /\ \A i \in 1..Len(tracks) :
              /\ tracks[i].Num = i
              /\ tracks[i].Mode \in {2, 4}
              /\ tracks[i].Start <= tracks[i].End
              /\ i = 1 => tracks[i].Pregap = 0
              /\ i > 1 =>
                    /\ tracks[i].Start > tracks[i - 1].End
                    /\ tracks[i].Pregap
                           = tracks[i].Start - tracks[i - 1].End - 1
                    /\ tracks[i].Pregap >= 0
        /\ TableBytes(tracks) = pmfLen

\* the scenario 1 2 0 10 / 2 4 11 20 with 11*2056 + 10*2352 bytes is accepted
\* and its second track has no pregap
C1_Witness ==
    /\ Parsed /\ parseErr = NoError
    /\ pmfLen = 11 * 2056 + 10 * 2352
    /\ Len(tracks) = 2
    /\ tracks[1].End = 10 /\ tracks[2].Start = 11 /\ tracks[2].Pregap = 0

\* the conditions under which a readable descriptor is rejected, over the
\* track lines parsed and the declared count
RejectReason ==
    \/ Len(scanned) = 0
    \/ numExpected > 0 /\ numExpected # Len(scanned)
    \/ \E i \in 1..Len(scanned) : scanned[i].Mode \notin {2, 4}
    \/ \E i \in 1..Len(scanned) : scanned[i].Num # i
    \/ \E i \in 1..Len(scanned) : scanned[i].Start > scanned[i].End
    \/ \E i \in 2..Len(scanned) : scanned[i].Start <= scanned[i - 1].End
    \/ TableBytes(scanned) # pmfLen

\* C2: for a descriptor that could be opened, parseFF returns an error if and
\* only if no track line was parsed, or the declared count is positive and
\* differs from the number of tracks, or some Mode is not 2 or 4, or some Num
\* is not its position, or some Start > End, or some track starts at or before
\* the end of the one before it, or the expected size differs from pmfLen.  A
\* declared count of 0 and the advisory alone never make it fail.
C2_FailsIff ==
    (Parsed /\ parseErr # "failed to open") =>
        /\ (parseErr # NoError) <=> RejectReason
        /\ (parseErr # NoError) => tracks = <<>>

\* a data track right after an audio track: the advisory is printed and the
\* table is accepted
C2_Witness ==
    /\ Parsed /\ parseErr = NoError
    /\ warned > 0
    /\ Len(tracks) = 2 /\ tracks[1].Mode = 4 /\ tracks[2].Mode = 2

\* C4: the descriptor 1 4 0 5 / 2 2 5 10, whose second track starts at the
\* end of the first, is rejected with the error that names the overlap with
\* the previous track.
C4_OverlapError ==
    (Parsed /\ parseErr # "failed to open"
        /\ ff = Descriptor("", -1, ScenarioOverlap)) =>
        parseErr = "overlaps previous track"

\* C3: parse, then encode, then cue.  While parseFF has not returned, and
\* after it returned an error (a payload one byte short included), buildBin
\* and writeCue have not been invoked: no image file is created and no sector
\* is written.  writeCue is invoked only after buildBin went through every
\* track and returned without error.
C3_Pipeline ==
    /\ (pc \in {"open", "scan"} \/ parseErr # NoError) =>
          /\ pc \notin {"build", "built"}
          /\ ~binCreated /\ image = <<>> /\ emitted = <<>>
          /\ ~cueCalled /\ cue = <<>>
    /\ cueCalled =>
          /\ parseErr = NoError
          /\ binCreated /\ buildErr = NoError
          /\ ti = Len(tracks) /\ offset = BufLen(pmf)
          /\ pc = "exit"

\* the scenario 1 2 0 10 / 2 4 11 20 with a payload one byte short: main
\* has returned on the validation error and nothing was created
C3_Witness ==
    /\ pc = "exit"
    /\ ff = Descriptor("", 2, ScenarioAdjacent)
    /\ pmfLen = 11 * 2056 + 10 * 2352 - 1
    /\ parseErr = "PMF length mismatch"
    /\ ~binCreated /\ image = <<>> /\ ~cueCalled

\* the sync field of a raw sector
Sync12 == <<0, 255, 255, 255, 255, 255, 255, 255, 255, 255, 255, 0>>

\* buildBin has returned without error on the scenario 1 2 0 10 / 2 4 12 20
GapBuilt ==
    /\ pc = "built" /\ buildErr = NoError
    /\ ff = Descriptor("", 2, ScenarioGap)

\* the pregap sectors written so far
PregapsEmitted == {k \in 1..Len(emitted) : emitted[k].kind = "pregap"}

\* in the scenario, one pregap sector, the 12th sector of the image, right
\* before the first payload sector of track 2
GapPlacement ==
    /\ tracks[2].Pregap = 1
    /\ PregapsEmitted = {12}
    /\ Len(image) = 21
    /\ emitted[13].kind = "audio" /\ emitted[13].track = 1
    /\ emitted[13].lba = 12

\* C5 as the specification states it: for 1 2 0 10 / 2 4 12 20 with a
\* matching payload, track 2 gets Pregap 1, exactly one pregap sector is
\* written right before track 2's first payload sector, and it holds the sync,
\* the header (BCD 00:02:11 of LBA 11 + 150, mode byte 4) and 2336 zero bytes.
C5_AsStated ==
    GapBuilt =>
        /\ GapPlacement
        /\ image[12] = Sync12 \o <<0, 2, 17, 4>> \o Zeros(2336)

\* C5, amended: for 1 2 0 10 / 2 4 12 20 with a matching payload, track 2
\* gets Pregap 1 and exactly one pregap sector is written right before track
\* 2's first payload sector; as track 2 is an audio track that sector is 2352
\* zero bytes.  A pregap sector holds the sync, the header (BCD time of its
\* LBA + 150, mode byte 2) and 2336 zero bytes only when its track is a data
\* track.
C5_PregapSector ==
    /\ GapBuilt => (GapPlacement /\ image[12] = Zeros(2352))
    /\ \A k \in PregapsEmitted :
          LET t == tracks[emitted[k].track + 1]
              msf == lbaToMSF(emitted[k].lba + 150)
          IN  image[k] =
                 IF t.Mode = 2
                 THEN Sync12
                      \o <<toBCD(msf.min), toBCD(msf.sec), toBCD(msf.frame), 2>>
                      \o Zeros(2336)
                 ELSE Zeros(2352)

\* the scenario is built and the pregap sector of its audio track is silence
C5_Witness ==
    /\ GapBuilt
    /\ PregapsEmitted = {12}
    /\ tracks[2].Mode = 4
    /\ image[12] = Zeros(2352)

\* the payload as it was read from the file
Pmf0 == Buffer(pmf.pat, pmf.len)

\* a sector has been written; the last one and what it is
Wrote == emitted # <<>>

LastSector == image[Len(image)]

LastEmitted == emitted[Len(emitted)]

\* minute, second, frame of lba + 150 in BCD
BcdTime(lba) ==
    LET msf == lbaToMSF(lba + 150)
    IN  <<toBCD(msf.min), toBCD(msf.sec), toBCD(msf.frame)>>

\* C6: a data sector written for logical sector s is 2352 bytes: the sync,
\* the BCD time of s + 150, the mode byte 2, then the 8 subheader bytes and the
\* 2048 user-data bytes as they are in the 2056 payload bytes at the cursor,
\* then the EDC of bytes [16:2072), the P-parity of bytes [12:2076) and the
\* Q-parity of bytes [12:2248).  (Each sector is the last one written in the
\* state that follows its write.)
C6_DataSectorLayout ==
    (Wrote /\ LastEmitted.kind = "data") =>
        LET sec == LastSector
            e == LastEmitted
            raw == BufSlice(Pmf0, e.from, e.to)
        IN  /\ Len(sec) = 2352
            /\ e.to - e.from = 2056
            /\ SubSeq(sec, 1, 12) = Sync12
            /\ SubSeq(sec, 13, 15) = BcdTime(e.lba)
            /\ sec[16] = 2
            /\ SubSeq(sec, 17, 24) = SubSeq(raw, 1, 8)
            /\ SubSeq(sec, 25, 2072) = SubSeq(raw, 9, 2056)
            /\ SubSeq(sec, 2073, 2076) = computeEDC(SubSeq(sec, 17, 2072))
            /\ SubSeq(sec, 2077, 2248) = pParityLFSR(SubSeq(sec, 13, 2076))
            /\ SubSeq(sec, 2249, 2352) = qParityLFSR(SubSeq(sec, 13, 2248))

\* the descriptor selects most-significant-byte-first audio
FlagMSB ==
    \E k \in 1..Len(ff) : ff[k].kind = "order" /\ ff[k].arg = "AUDIO_MSB"

\* x with the bytes of every pair (2k, 2k+1) exchanged
PairSwapped(x) ==
    [k \in 1..Len(x) |-> IF k % 2 = 1 THEN x[k + 1] ELSE x[k - 1]]

\* C7: an audio sector written is the next 2352 payload bytes at the cursor
\* and nothing else: the same bytes when the descriptor's byte order is not
\* AUDIO_MSB, the bytes of every pair (2k, 2k+1) exchanged when it is, so that
\* exchanging them again gives the payload bytes back.
C7_AudioSector ==
    (Wrote /\ LastEmitted.kind = "audio") =>
        LET sec == LastSector
            e == LastEmitted
            raw == BufSlice(Pmf0, e.from, e.to)
        IN  /\ Len(sec) = 2352
            /\ e.to - e.from = 2352 /\ e.to = offset
            /\ ~FlagMSB => sec = raw
            /\ FlagMSB =>
                  /\ \A k \in 0..1175 :
                        sec[2 * k + 1] = raw[2 * k + 2]
                        /\ sec[2 * k + 2] = raw[2 * k + 1]
                  /\ PairSwapped(sec) = raw

\* an audio sector written under AUDIO_MSB that differs from the payload
C7_Witness ==
    /\ Wrote /\ LastEmitted.kind = "audio"
    /\ FlagMSB
    /\ LastSector # BufSlice(Pmf0, LastEmitted.from, LastEmitted.to)
    /\ LastSector[1] = BufByte(Pmf0, LastEmitted.from + 1)

\* payload bytes a sector of the given kind consumes
Consumes(kind) ==
    IF kind = "audio" THEN 2352 ELSE IF kind = "data" THEN 2056 ELSE 0

\* the cursor and the ranges read so far, and the error buildBin returned
C8_State ==
    /\ offset >= 0
    /\ offset = IF Wrote THEN LastEmitted.to ELSE 0
    /\ \A k \in 1..Len(emitted) :
          /\ emitted[k].from = IF k = 1 THEN 0 ELSE emitted[k - 1].to
          /\ emitted[k].to = emitted[k].from + Consumes(emitted[k].kind)
          /\ emitted[k].to <= BufLen(pmf)
    /\ pc = "build" => buildErr = NoError
    /\ buildErr = "PMF truncated" =>
          /\ phase = "payload"
          /\ offset + Consumes(IF tracks[ti + 1].Mode = 4 THEN "audio"
                               ELSE "data") > BufLen(pmf)
    /\ (pc = "built" /\ binCreated) =>
          /\ buildErr = "PMF truncated" <=> TableBytes(tracks) > BufLen(pmf)
          /\ buildErr = "PMF file not fully consumed"
                <=> TableBytes(tracks) < BufLen(pmf)
          /\ buildErr = NoError <=> TableBytes(tracks) = BufLen(pmf)

\* a step of buildBin: the cursor moves only when a payload sector is
\* written, forward, by the size of the chunk
C8_Step ==
    /\ offset' >= offset
    /\ Len(image') \in {Len(image), Len(image) + 1}
    /\ offset' # offset =>
          /\ phase = "payload" /\ Len(image') = Len(image) + 1
          /\ offset' - offset
                = (IF tracks[ti + 1].Mode = 4 THEN 2352 ELSE 2056)
    /\ (phase = "pregap" /\ Len(image') = Len(image) + 1) => offset' = offset

\* C8: the cursor starts at 0, never decreases, advances by 2352 per audio
\* sector and 2056 per data sector and not at all per pregap sector, so the
\* ranges read are adjacent and disjoint; buildBin returns the truncation
\* error as soon as a chunk would end past the payload, and the unconsumed
\* error when after all tracks the cursor is not the payload length.
C8_Cursor == [](C8_State) /\ [][C8_Step]_vars

\* truncation after at least one sector was written
C8_Witness ==
    /\ pc = "built" /\ buildErr = "PMF truncated"
    /\ Len(image) >= 1 /\ offset > 0
    /\ offset < BufLen(pmf)

\* C9: after buildBin returns, with or without error, every byte of the
\* payload buffer has the value it had before the call.
C9_PayloadImmutable ==
    pc \in {"built", "exit"} =>
        \A i \in 0..(BufLen(pmf) - 1) : BufByte(pmf, i) = BufByte(Pmf0, i)

\* C10: sectors are written in ascending logical-block order without repeat
\* or gap: the k-th sector written (0-based) is LBA Start(1) + k, tracks come
\* in table order, the pregap sectors of a track before its payload sectors;
\* a sector that carries a header carries the time of that LBA; and when
\* buildBin returns without error the sectors reach End of the last track.
C10_AscendingLBA ==
    /\ Len(image) = Len(emitted)
    /\ \A k \in 1..Len(emitted) :
          /\ emitted[k].lba = tracks[1].Start + (k - 1)
          /\ k > 1 =>
                /\ emitted[k].track >= emitted[k - 1].track
                /\ (emitted[k].track = emitted[k - 1].track
                      /\ emitted[k].kind = "pregap")
                      => emitted[k - 1].kind = "pregap"
    /\ (Wrote /\ tracks[LastEmitted.track + 1].Mode = 2) =>
          SubSeq(LastSector, 13, 15)
              = BcdTime(tracks[1].Start + Len(emitted) - 1)
    /\ (pc = "built" /\ buildErr = NoError) =>
          Len(emitted) = tracks[Len(tracks)].End - tracks[1].Start + 1

\* a table with a gap is built to the end: pregap sector between the tracks
C10_Witness ==
    /\ pc = "built" /\ buildErr = NoError
    /\ Len(tracks) = 2 /\ tracks[2].Pregap = 1
    /\ Len(emitted) = 3
    /\ emitted[2].kind = "pregap" /\ emitted[2].lba = 1

\* minute, second, frame of a sector count: 75 frames a second, 60 seconds
\* a minute
Msf(n) ==
    [min |-> n \div 4500, sec |-> (n \div 75) % 60, frame |-> n % 75]

\* the header of the last sector written, when it has one, carries the time
\* of its LBA plus 150: Start - Pregap + s + 150 for pregap sector s, s + 150
\* for payload sector s
HeaderTimes ==
    (Wrote /\ tracks[LastEmitted.track + 1].Mode = 2) =>
        LET t == tracks[LastEmitted.track + 1]
            m == Msf(LastEmitted.lba + 150)
        IN  /\ LastEmitted.kind = "pregap" =>
                  \E sp \in 0..(t.Pregap - 1) :
                      LastEmitted.lba = t.Start - t.Pregap + sp
            /\ LastEmitted.kind = "data" =>
                  LastEmitted.lba \in t.Start..t.End
            /\ SubSeq(LastSector, 13, 15)
                  = <<toBCD(m.min), toBCD(m.sec), toBCD(m.frame)>>

\* the cue sheet was written
CueWritten == cueCalled /\ cue # <<>>

\* C11 as the specification states it: header times are the times of the
\* LBA plus 150, and the INDEX 00 and INDEX 01 times of the cue sheet are
\* those of Start - Pregap + 150 and Start + 150.
C11_AsStated ==
    /\ HeaderTimes
    /\ CueWritten =>
          \A k \in 1..Len(tracks) :
              /\ cue[k].index01 = Msf(tracks[k].Start + 150)
              /\ tracks[k].Pregap > 0 =>
                    cue[k].index00
                        = <<Msf(tracks[k].Start - tracks[k].Pregap + 150)>>

\* C11, amended: the 150 sectors of lead-in are added in the sector headers
\* only.  The header time of pregap sector s is that of
\* Start - Pregap + s + 150 and the header time of data sector s that of
\* s + 150; the cue sheet has, per track, INDEX 01 at the time of Start and,
\* when Pregap > 0 and only then, INDEX 00 at the time of Start - Pregap,
\* both without the lead-in.
C11_LeadIn ==
    /\ HeaderTimes
    /\ CueWritten =>
          /\ Len(cue) = Len(tracks)
          /\ \A k \in 1..Len(tracks) :
                /\ cue[k].index01 = Msf(tracks[k].Start)
                /\ cue[k].index00
                      = IF tracks[k].Pregap > 0
                        THEN <<Msf(tracks[k].Start - tracks[k].Pregap)>>
                        ELSE <<>>

\* a cue sheet with an INDEX 00 for its second track, at the time of the LBA
\* after the first track
C11_Witness ==
    /\ CueWritten
    /\ Len(cue) = 2 /\ tracks[2].Pregap > 0
    /\ cue[2].index00 = <<Msf(tracks[1].End + 1)>>
    /\ cue[2].index01 = Msf(tracks[2].Start)

\* the call is over
Returned(fn) == call.fn = fn /\ call.done

\* C12: for every LBA >= 0 lbaToMSF returns minute = lba/4500, second =
\* (lba/75)%60, frame = lba%75, with second in 0..59, frame in 0..74 and
\* minute*4500 + second*75 + frame = lba; toBCD(v) for v in 0..99 has the
\* tens digit in the high nibble and the units digit in the low one
\* (toBCD(28) = 0x28, toBCD(0) = 0); so the three time bytes of a header are
\* BCD with both nibbles at most 9 whenever the LBA plus 150 is below 450000.
C12_TimeConversion ==
    /\ (Returned("lbaToMSF") /\ call.arg >= 0) =>
          /\ call.res.min = call.arg \div 4500
          /\ call.res.sec = (call.arg \div 75) % 60
          /\ call.res.frame = call.arg % 75
          /\ call.res.sec \in 0..59
          /\ call.res.frame \in 0..74
          /\ call.res.min * 4500 + call.res.sec * 75 + call.res.frame
                = call.arg
    /\ (Returned("toBCD") /\ call.arg \in 0..99) =>
          /\ call.res \div 16 = call.arg \div 10
          /\ call.res % 16 = call.arg % 10
          /\ call.arg = 28 => call.res = 40
          /\ call.arg = 0 => call.res = 0
    /\ (Returned("header") /\ call.arg + 150 < 450000) =>
          /\ \A k \in 1..3 :
                call.res[k] \div 16 <= 9 /\ call.res[k] % 16 <= 9
          /\ Msf(call.arg + 150)
                = [min |-> 10 * (call.res[1] \div 16) + (call.res[1] % 16),
                   sec |-> 10 * (call.res[2] \div 16) + (call.res[2] % 16),
                   frame |-> 10 * (call.res[3] \div 16) + (call.res[3] % 16)]

\* toBCD(28) has returned 0x28
C12_Witness == Returned("toBCD") /\ call.arg = 28 /\ call.res = 40

\* the checksum taken one bit at a time: the byte enters the low end of the
\* accumulator, which is then shifted right eight times, the polynomial
\* added whenever a one is shifted out
BitwiseEDC(data) ==
    LET Body(acc, i) == EdcRounds(Xor32(acc, U32(0, At(data, i))), 8)
        edc == ForLoop(Body, 0, Len(data), U32(0, 0))
    IN  << edc.lo % 256, edc.lo \div 256, edc.hi % 256, edc.hi \div 256 >>

\* C13: computeEDC is a function of its input bytes alone: four bytes, the
\* little-endian value of the accumulator that starts at 0 and takes each
\* byte through the table, with no final XOR (so the empty span gives 0 and
\* the result equals the checksum taken bit by bit); and flipping any single
\* bit of the input changes the four bytes.
C13_EdcFunction ==
    Returned("computeEDC") =>
        /\ Len(call.res.edc) = 4
        /\ \A k \in 1..4 : call.res.edc[k] \in 0..255
        /\ call.res.edc = BitwiseEDC(call.arg.data)
        /\ call.arg.data = <<>> => call.res.edc = <<0, 0, 0, 0>>
        /\ call.arg.at < Len(call.arg.data) =>
              call.res.flipped # call.res.edc

\* a bit of a sector-sized span was flipped
C13_Witness ==
    /\ Returned("computeEDC")
    /\ Len(call.arg.data) = EdcSpan
    /\ call.arg.at = EdcSpan - 1
    /\ call.res.flipped # call.res.edc

\* a times x in GF(256), reduced by x^8 + x^4 + x^3 + x^2 + 1 (0x11D)
TimesX(a) == IF 2 * a >= 256 THEN Xor16(2 * a, 285) % 256 ELSE 2 * a

\* the product of the polynomials a and b in GF(256): b taken bit by bit
\* from the lowest, a multiplied by x at every bit
RECURSIVE FieldProduct(_, _)
FieldProduct(a, b) ==
    IF b = 0 THEN 0
    ELSE Xor8(IF b % 2 = 1 THEN a ELSE 0, FieldProduct(TimesX(a), b \div 2))

\* C14: for all bytes a and b, gfMult(a,b) = gfMult(b,a) and a zero operand
\* gives 0; for non-zero operands the index log(a)+log(b) is at most 508,
\* the last entry of the exponent table, and the entry read there is the
\* entry at (log(a)+log(b)) mod 255, which is the product of a and b in
\* GF(256) reduced by 0x11D.
C14_GfMult ==
    Returned("gfMult") =>
        LET a == call.arg.a
            b == call.arg.b
            index == gfLog[a] + gfLog[b]
        IN  /\ call.res.ab = call.res.ba
            /\ (a = 0 \/ b = 0) => call.res.ab = 0
            /\ (a # 0 /\ b # 0) =>
                  /\ index <= 508
                  /\ index \in DOMAIN gfPow
                  /\ call.res.ab = gfPow[index]
                  /\ call.res.ab = gfPow[index % 255]
                  /\ call.res.ab = FieldProduct(a, b)

\* both logarithms are 254: the last entry of the table is read
C14_Witness ==
    /\ Returned("gfMult")
    /\ call.arg.a # 0 /\ call.arg.b # 0
    /\ gfLog[call.arg.a] + gfLog[call.arg.b] = 508
    /\ call.res.ab = gfPow[253]

HeaderAsZero(sector) ==
    [k \in 1..Len(sector) |-> IF k <= 4 THEN 0 ELSE sector[k]]

\* the n data symbols d_0 .. d_(n-1) of a lane, in stream h (0 the low
\* bytes, 1 the high bytes)
PLaneData(sector, col, h) ==
    [i \in 1..24 |-> At(HeaderAsZero(sector), 2 * col + 86 * (i - 1) + h)]

QLaneData(sector, diag, h) ==
    [i \in 1..43 |->
        At(HeaderAsZero(sector), ((86 * diag + 88 * (i - 1)) % 2236) + h)]

\* the registers r1, r0 of a lane as the parity holds them
LaneRegs(parity, lane, h) ==
    << At(parity, 2 * lane + h),
       At(parity, Len(parity) \div 2 + 2 * lane + h) >>

\* the remainder a*x + b of c_1 x^(n-1) + ... + c_n by x^2 + 3x + 2: one
\* coefficient at a time, x^2 replaced by 3x + 2
PolyRem(coeffs) ==
    LET Body(rem, i) ==
            << Xor8(rem[2], gfMult(3, rem[1])),
               Xor8(At(coeffs, i), gfMult(2, rem[1])) >>
    IN  ForLoop(Body, 0, Len(coeffs), <<0, 0>>)

\* the XOR of all symbols
Syndrome0(word) ==
    LET Body(sum, i) == Xor8(sum, At(word, i))
    IN  ForLoop(Body, 0, Len(word), 0)

\* the sum of 2^(n+1-i) * c_i over the symbols c_0 .. c_(n+1)
Syndrome1(word) ==
    LET Body(sum, i) ==
            Xor8(sum, gfMult(gfPow[Len(word) - 1 - i], At(word, i)))
    IN  ForLoop(Body, 0, Len(word), 0)

LaneIsCodeword(data, regs) ==
    /\ PolyRem(data \o <<0, 0>>) = regs
    /\ Syndrome0(data \o regs) = 0
    /\ Syndrome1(data \o regs) = 0

\* C16: in every lane of P-parity (24 data symbols) and of Q-parity (43),
\* and in the low-byte and the high-byte stream each, the final registers
\* (r1, r0) are the remainder of D(x)*x^2 by x^2 + 3x + 2 over GF(256), D
\* being the data of the lane with the header bytes taken as zero; so the
\* word d_0 .. d_(n-1), r1, r0 has both syndromes zero.
C16_LaneRemainder ==
    /\ (Returned("pParityLFSR") /\ Len(call.arg.sector) = 2064) =>
          \A col \in 0..42, h \in 0..1 :
              LaneIsCodeword(PLaneData(call.arg.sector, col, h),
                             LaneRegs(call.res.parity, col, h))
    /\ (Returned("qParityLFSR") /\ Len(call.arg.sector) = 2236) =>
          \A diag \in 0..25, h \in 0..1 :
              LaneIsCodeword(QLaneData(call.arg.sector, diag, h),
                             LaneRegs(call.res.parity, diag, h))

\* parity of an input whose four header bytes are all non-zero
C16_Witness ==
    /\ Returned("qParityLFSR")
    /\ Len(call.arg.sector) = 2236
    /\ \A k \in 1..4 : call.arg.sector[k] # 0
    /\ LaneRegs(call.res.parity, 0, 1) # <<0, 0>>

\* a parity generator has returned for an input of its own length
ParityReturned ==
    \/ Returned("pParityLFSR") /\ Len(call.arg.sector) = 2064
    \/ Returned("qParityLFSR") /\ Len(call.arg.sector) = 2236

LooksLikeTrack(k) == ff[k].kind = "text" /\ Len(ff[k].nums) >= 4

\* the start marker is on a line before line k
MarkerBefore(k) == \E j \in 1..k - 1 : ff[j].kind = "marker"

\* the track lines after the marker among the first n lines, in file order
RECURSIVE TracksOf(_)
TracksOf(n) ==
    IF n = 0 THEN <<>>
    ELSE IF LooksLikeTrack(n) /\ MarkerBefore(n)
         THEN Append(TracksOf(n - 1),
                     Track(ff[n].nums[1], ff[n].nums[2], ff[n].nums[3],
                           ff[n].nums[4], 0))
         ELSE TracksOf(n - 1)

C18_State ==
    /\ scanned = TracksOf(lineIdx)
    /\ inSection = MarkerBefore(lineIdx + 1)

C18_Step == inSection => inSection'

\* C18: after any number of lines read, the scanned tracks are exactly the
\* lines that stand after a start marker, are no directive and parse as
\* four integers, in file order: lines before the marker are never tracks,
\* other lines are skipped, and the section, once begun, never ends.
C18_Scan == [](C18_State) /\ [][C18_Step]_vars

\* a file read to its end that has track lines before the marker and
\* after it, and only the latter were taken
C18_Witness ==
    /\ pc = "parsed" /\ lineIdx = Len(ff)
    /\ \E k \in 1..Len(ff) : LooksLikeTrack(k) /\ ~MarkerBefore(k)
    /\ \E k \in 1..Len(ff) : LooksLikeTrack(k) /\ MarkerBefore(k)
    /\ Len(scanned) >= 1
    /\ Len(scanned) < Cardinality({k \in 1..Len(ff) : LooksLikeTrack(k)})

\* the byte offsets read, pos and pos + 1 for every value of pos
OffsetsRead(reads) ==
    {reads[lane][k] + h :
        lane \in DOMAIN reads, k \in 1..Len(reads[0]), h \in 0..1}

\* lanes lanes of steps reads of two bytes each read every one of the len
\* bytes, none of them twice, and nothing else
ReadsPartition(reads, lanes, steps, len) ==
    /\ DOMAIN reads = 0..lanes - 1
    /\ \A lane \in 0..lanes - 1 : Len(reads[lane]) = steps
    /\ \A lane \in 0..lanes - 1, k \in 1..steps :
          reads[lane][k] >= 0 /\ reads[lane][k] + 1 < len
    /\ OffsetsRead(reads) = 0..len - 1
    /\ lanes * steps * 2 = len

\* C19: the 43 columns of 24 rows of pParityLFSR read every byte offset of
\* [0,2064) exactly once, column c at 2c + 86*row; the 26 diagonals of 43
\* steps of qParityLFSR read every byte offset of [0,2236) exactly once,
\* diagonal d at (86*d + 88*step) mod 2236; and every index pos and pos+1
\* is inside the input.
C19_LanesPartition ==
    /\ (Returned("pParityLFSR") /\ Len(call.arg.sector) = 2064) =>
          /\ ReadsPartition(call.res.reads, 43, 24, 2064)
          /\ \A col \in 0..42, row \in 0..23 :
                call.res.reads[col][row + 1] = 2 * col + 86 * row
    /\ (Returned("qParityLFSR") /\ Len(call.arg.sector) = 2236) =>
          /\ ReadsPartition(call.res.reads, 26, 43, 2236)
          /\ \A diag \in 0..25, step \in 0..42 :
                call.res.reads[diag][step + 1]
                    = (86 * diag + 88 * step) % 2236

\* a diagonal wrapped, and the last two bytes of the input were read
C19_Witness ==
    /\ Returned("qParityLFSR")
    /\ Len(call.arg.sector) = 2236
    /\ \E diag \in 0..25, step \in 0..42 :
          call.res.reads[diag][step + 1] < 86 * diag + 88 * step
    /\ 2235 \in OffsetsRead(call.res.reads)

\* the sectors the table stands for, pregaps included
RECURSIVE TableSectors(_)
TableSectors(tt) ==
    IF tt = <<>> THEN 0
    ELSE LET t == Head(tt)
         IN  t.Pregap + t.End - t.Start + 1 + TableSectors(Tail(tt))

\* buildBin has returned after creating the image
BuildReturned == pc \in {"built", "exit"} /\ binCreated

\* C20: a table parseFF accepted for a payload of N bytes is built from
\* those N bytes without the truncation error and without the
\* unconsumed-input error: the cursor ends at N, and the image holds
\* the sum over the tracks of Pregap + End - Start + 1 sectors of 2352
\* bytes, which is End(last) - Start(first) + 1 sectors.
C20_AcceptedBuilds ==
    /\ buildErr \notin {"PMF truncated", "PMF file not fully consumed"}
    /\ BuildReturned =>
          /\ parseErr = NoError
          /\ buildErr = NoError
          /\ BufLen(pmf) = pmfLen
          /\ offset = pmfLen
          /\ Len(image) = TableSectors(tracks)
          /\ Len(image)
                = tracks[Len(tracks)].End - tracks[1].Start + 1
          /\ \A k \in 1..Len(image) : Len(image[k]) = binSector

\* two tracks with a gap between them were built to the end
C20_Witness ==
    /\ BuildReturned
    /\ Len(tracks) = 2
    /\ tracks[2].Pregap > 0
    /\ tracks[1].Mode # tracks[2].Mode
    /\ buildErr = NoError
    /\ offset = pmfLen
    /\ Len(image) = 3

====
